---- MODULE Spec2Model ----
(***************************************************************************)
(* Adaptive review scheduler of the learning app: the per-(learner, topic) *)
(* progress rows, the attempt history, the SM-2 interval scheduler, the    *)
(* forgetting curve and the topic picker (src/user_state.py,               *)
(* src/question_picker.py, src/topic_map.py, src/database.py).             *)
(*                                                                         *)
(* Units.  Timestamps are whole half-days (one clock tick = 12 hours).     *)
(* easiness_factor is kept in hundredths (2.5 = 250), mastery, retention   *)
(* and priority scores in thousandths (1.0 = 1000).                        *)
(*                                                                         *)
(* Store.  Every operation opens its own sqlite3 connection (get_db).  A   *)
(* SELECT runs outside any transaction and sees the committed tables.  The *)
(* first INSERT/UPDATE/DELETE of a connection opens a transaction and      *)
(* takes the database write lock; its writes stay private to the           *)
(* connection until commit and are discarded by rollback.  No other        *)
(* connection can commit while the lock is held, so a transaction that     *)
(* reads nothing but the database takes effect atomically at its commit:   *)
(* such a transaction is one action here, and a failure inside it is the   *)
(* action that rolls back.  init_user_state also reads the in-memory topic *)
(* list while its transaction is open, so it keeps its pending rows and    *)
(* holds the lock from one loop iteration to the next.                     *)
(***************************************************************************)
EXTENDS Integers, Sequences, FiniteSets, TLC

\* ------------------------------------------------------------------ bounds
Learners == {1, 2}
Topics == {"a", "b"}
TopicLists == {<<"a">>, <<"a", "b">>}
Procs == {"p1", "p2"}
MaxCalls == 2
MaxSeqCalls == 3
MaxSessionCalls == 7
MaxReviewCount == 5
MaxPickCalls == 1
MaxUploadCalls == 4
MaxRaceCalls == 2
MaxTime == 2
MaxRegistry == 2

\* ------------------------------------------------------- program constants
EFMin == 130
EFMax == 250
QualityCorrect == 4
QualityWrong == 1
TopN == 3
RecentLimit == 5
MinVelocitySamples == 3
NewTopicPriority == 100000

NULL == 0 - 1
TicksPerDay == 24 \div 12

Max(a, b) == IF a >= b THEN a ELSE b
Min(a, b) == IF a <= b THEN a ELSE b

\* Python's round(): nearest integer of n/d, ties to the even neighbour.
Round(n, d) ==
  LET q == n \div d
      r == n % d
  IN  IF 2 * r < d THEN q
      ELSE IF 2 * r > d THEN q + 1
      ELSE IF q % 2 = 0 THEN q ELSE q + 1

\* ------------------------------------------------------- forgetting curve
\* e^(-y) for 0 <= y <= 0.5, y and the result in units of 1/10000.
ExpNegSmall(y) ==
  LET t1 == y
      t2 == (t1 * y) \div (2 * 10000)
      t3 == (t2 * y) \div (3 * 10000)
      t4 == (t3 * y) \div (4 * 10000)
      t5 == (t4 * y) \div (5 * 10000)
  IN  10000 - t1 + t2 - t3 + t4 - t5

RECURSIVE Pow(_, _)
Pow(r, n) == IF n = 0 THEN 10000 ELSE (r * Pow(r, n - 1)) \div 10000

\* math.exp(-time_elapsed / memory_strength) in thousandths, for an elapsed
\* time of dt ticks of 12 hours and a memory strength of
\* 24 + mastery * 696 hours.
Decay(dt, mastery) ==
  LET perTick == (12 * 10000 * 1000) \div (24000 + mastery * 696)
  IN  Pow(ExpNegSmall(perTick), dt) \div 10

Value(v) == [error |-> "none", value |-> v]
Raise(e) == [error |-> e, value |-> 0]

\* time_now is the clock value that the function reads itself.
calculate_forgetting_factor(last_reviewed, mastery, time_now) ==
  IF last_reviewed = NULL THEN Value(1000)
  ELSE IF mastery < 0 \/ mastery > 1000 THEN Raise("ValueError")
  ELSE IF time_now <= last_reviewed THEN Value(1000)
  ELSE Value(Max(0, Min(1000, Decay(time_now - last_reviewed, mastery))))

\* ------------------------------------------------------ interval scheduler
\* Mutation: a failed recall keeps the review count.
calculate_sm2_interval_no_reset(easiness_factor, review_count, quality) ==
  IF quality < 0 \/ quality > 5
    THEN [error |-> "ValueError", interval |-> 0, review_count |-> 0]
  ELSE IF quality < 3
    THEN [error |-> "none", interval |-> 1, review_count |-> review_count]
  ELSE LET ef_multiplier == IF easiness_factor < EFMin THEN EFMin
                            ELSE IF easiness_factor > EFMax THEN EFMax
                            ELSE easiness_factor
           interval == IF review_count = 0 THEN 1
                       ELSE IF review_count = 1 THEN 6
                       ELSE Round(review_count * ef_multiplier, 100)
       IN  [error |-> "none", interval |-> interval,
            review_count |-> review_count + 1]

calculate_sm2_interval(easiness_factor, review_count, quality) ==
  IF quality < 0 \/ quality > 5
    THEN [error |-> "ValueError", interval |-> 0, review_count |-> 0]
  ELSE IF quality < 3
    THEN [error |-> "none", interval |-> 1, review_count |-> 0]
  ELSE LET ef_multiplier == IF easiness_factor < EFMin THEN EFMin
                            ELSE IF easiness_factor > EFMax THEN EFMax
                            ELSE easiness_factor
           interval == IF review_count = 0 THEN 1
                       ELSE IF review_count = 1 THEN 6
                       ELSE Round(review_count * ef_multiplier, 100)
       IN  [error |-> "none", interval |-> interval,
            review_count |-> review_count + 1]

\* Mutation: the clamp to [1.3, 2.5] is missing.
update_easiness_factor_unclamped(current_ef, quality) ==
  current_ef + (10 - (5 - quality) * (8 + (5 - quality) * 2))

\* EF' = EF + (0.1 - (5 - q) * (0.08 + (5 - q) * 0.02)), in hundredths
update_easiness_factor(current_ef, quality) ==
  LET new_ef == current_ef + (10 - (5 - quality) * (8 + (5 - quality) * 2))
  IN  Max(EFMin, Min(EFMax, new_ef))

\* ------------------------------------------------------------------ state
VARIABLES
  topics,           \* topic_map.topics: the process-wide registry list
  user_progress,    \* committed rows of table user_progress
  attempt_history,  \* committed rows of table attempt_history, oldest first
  clock,            \* datetime.now()
  lock,             \* request thread whose connection holds the write lock
  pc,               \* per request thread: the statement it executes next
  frame,            \* per request thread: arguments and locals of its call
  result,           \* per request thread: how its last call ended
  budget            \* number of calls that may still be started

vars == <<topics, user_progress, attempt_history, clock, lock, pc, frame,
          result, budget>>

NewRow(user_id, topic_id) ==
  [user_id |-> user_id, topic_id |-> topic_id, attempts |-> 0, correct |-> 0,
   mastery |-> 0, streak_correct |-> 0, streak_wrong |-> 0,
   last_reviewed |-> NULL, next_review |-> NULL, easiness_factor |-> EFMax,
   interval_days |-> 0, review_count |-> 0]

NoFrame ==
  [op |-> "none", user_id |-> 0, topic_id |-> "", correct |-> FALSE,
   current_time |-> NULL, stats |-> {}, index |-> 0, pending |-> {},
   user_state |-> {}]

Outcome(status, value) == [status |-> status, value |-> value]
Ok == Outcome("ok", "")
Failed(e) == Outcome(e, "")
EmptyState == "ValueError: user_state is empty"
EmptyRegistry == "ValueError: No topics available"

\* SELECT * FROM user_progress WHERE user_id = ? AND topic_id = ?
Select(tbl, user_id, topic_id) ==
  {r \in tbl : r.user_id = user_id /\ r.topic_id = topic_id}

\* SELECT * FROM user_progress WHERE user_id = ?
SelectUser(tbl, user_id) == {r \in tbl : r.user_id = user_id}

\* A write statement waits while another connection holds the write lock.
CanWrite(p) == lock \in {"none", p}

InitWith(n) ==
  /\ topics = <<>>
  /\ user_progress = {}
  /\ attempt_history = <<>>
  /\ clock = 0
  /\ lock = "none"
  /\ pc = [p \in Procs |-> "idle"]
  /\ frame = [p \in Procs |-> NoFrame]
  /\ result = [p \in Procs |-> Outcome("none", "")]
  /\ budget = n

Init == InitWith(MaxCalls)

\* A call ends: its frame is gone, the caller holds the outcome.
Return(p, outcome) ==
  /\ pc' = [pc EXCEPT ![p] = "idle"]
  /\ frame' = [frame EXCEPT ![p] = NoFrame]
  /\ result' = [result EXCEPT ![p] = outcome]

\* An idle request thread starts a call.
Start(p) ==
  /\ pc[p] = "idle"
  /\ budget > 0
  /\ budget' = budget - 1

Call(p, f) ==
  /\ Start(p)
  /\ frame' = [frame EXCEPT ![p] = f]
  /\ result' = [result EXCEPT ![p] = Outcome("running", "")]

\* ------------------------------------------------------------ record_answer
\* Mutation: the counter is advanced in the else branch only.
new_attempts_wrong_only(stats, correct) ==
  IF correct THEN stats.attempts ELSE stats.attempts + 1

\* attempts = stats_dict["attempts"] + 1
new_attempts(stats, correct) == stats.attempts + 1

\* correct_count of the two branches of `if correct`
new_correct_count(stats, correct) ==
  IF correct THEN stats.correct + 1 ELSE stats.correct

\* Mutation: the else branch forgets streak_correct = 0.
new_streak_correct_kept(stats, correct) ==
  IF correct THEN stats.streak_correct + 1 ELSE stats.streak_correct

\* streak_correct of the two branches of `if correct`
new_streak_correct(stats, correct) ==
  IF correct THEN stats.streak_correct + 1 ELSE 0

\* Mutation: the else branch restarts the streak instead of extending it.
new_streak_wrong_restart(stats, correct) ==
  IF correct THEN 0 ELSE 1

\* streak_wrong of the two branches of `if correct`
new_streak_wrong(stats, correct) ==
  IF correct THEN 0 ELSE stats.streak_wrong + 1

\* Mutation: the retention is not blended in.
new_mastery_accuracy_only(correct_count, attempts, retention) ==
  (correct_count * 1000) \div Max(1, attempts)

\* raw_accuracy = correct_count / max(1, attempts);
\* mastery = (raw_accuracy * 0.7) + (retention * 0.3), in thousandths
new_mastery(correct_count, attempts, retention) ==
  (correct_count * 700) \div Max(1, attempts) + (retention * 300) \div 1000

\* Mutation: next_review is set to the time of the answer.
Answered_due_at_once(stats, correct, current_time, time_now) ==
  LET attempts == new_attempts(stats, correct)
      correct_count == new_correct_count(stats, correct)
      streak_correct == new_streak_correct(stats, correct)
      streak_wrong == new_streak_wrong(stats, correct)
      quality == IF correct THEN QualityCorrect ELSE QualityWrong
      ff == IF stats.last_reviewed # NULL
              THEN calculate_forgetting_factor(stats.last_reviewed,
                                               stats.mastery, time_now)
              ELSE Value(1000)
      retention == ff.value
      mastery == new_mastery(correct_count, attempts, retention)
      easiness_factor == update_easiness_factor(stats.easiness_factor, quality)
      sm2 == calculate_sm2_interval(easiness_factor, stats.review_count, quality)
  IN  [error |-> IF ff.error # "none" THEN ff.error ELSE sm2.error,
       attempts |-> attempts, correct |-> correct_count, mastery |-> mastery,
       streak_correct |-> streak_correct, streak_wrong |-> streak_wrong,
       last_reviewed |-> current_time,
       next_review |-> current_time,
       easiness_factor |-> easiness_factor, interval_days |-> sm2.interval,
       review_count |-> sm2.review_count, retention |-> retention]

\* The new column values that record_answer computes from the row it read;
\* time_now is the clock that calculate_forgetting_factor reads.
Answered(stats, correct, current_time, time_now) ==
  LET attempts == new_attempts(stats, correct)
      correct_count == new_correct_count(stats, correct)
      streak_correct == new_streak_correct(stats, correct)
      streak_wrong == new_streak_wrong(stats, correct)
      quality == IF correct THEN QualityCorrect ELSE QualityWrong
      ff == IF stats.last_reviewed # NULL
              THEN calculate_forgetting_factor(stats.last_reviewed,
                                               stats.mastery, time_now)
              ELSE Value(1000)
      retention == ff.value
      mastery == new_mastery(correct_count, attempts, retention)
      easiness_factor == update_easiness_factor(stats.easiness_factor, quality)
      sm2 == calculate_sm2_interval(easiness_factor, stats.review_count, quality)
  IN  [error |-> IF ff.error # "none" THEN ff.error ELSE sm2.error,
       attempts |-> attempts, correct |-> correct_count, mastery |-> mastery,
       streak_correct |-> streak_correct, streak_wrong |-> streak_wrong,
       last_reviewed |-> current_time,
       next_review |-> current_time + sm2.interval * TicksPerDay,
       easiness_factor |-> easiness_factor, interval_days |-> sm2.interval,
       review_count |-> sm2.review_count, retention |-> retention]

\* Mutation: the WHERE clause lacks the topic_id condition.
UpdateProgress_all_topics(tbl, user_id, topic_id, new) ==
  {IF r.user_id = user_id
     THEN [r EXCEPT !.attempts = new.attempts, !.correct = new.correct,
                    !.mastery = new.mastery,
                    !.streak_correct = new.streak_correct,
                    !.streak_wrong = new.streak_wrong,
                    !.last_reviewed = new.last_reviewed,
                    !.next_review = new.next_review,
                    !.easiness_factor = new.easiness_factor,
                    !.interval_days = new.interval_days,
                    !.review_count = new.review_count]
     ELSE r : r \in tbl}

\* UPDATE user_progress SET ... WHERE user_id = ? AND topic_id = ?
UpdateProgress(tbl, user_id, topic_id, new) ==
  {IF r.user_id = user_id /\ r.topic_id = topic_id
     THEN [r EXCEPT !.attempts = new.attempts, !.correct = new.correct,
                    !.mastery = new.mastery,
                    !.streak_correct = new.streak_correct,
                    !.streak_wrong = new.streak_wrong,
                    !.last_reviewed = new.last_reviewed,
                    !.next_review = new.next_review,
                    !.easiness_factor = new.easiness_factor,
                    !.interval_days = new.interval_days,
                    !.review_count = new.review_count]
     ELSE r : r \in tbl}

\* Mutation: the new record takes the place of the latest one.
InsertAttempt_over_latest(tbl, user_id, topic_id, correct, new, current_time) ==
  Append(SubSeq(tbl, 1, Len(tbl) - 1),
         [user_id |-> user_id, topic_id |-> topic_id,
          correct |-> correct, mastery_at_time |-> new.mastery,
          retention |-> new.retention, timestamp |-> current_time])

\* INSERT INTO attempt_history (user_id, topic_id, correct, mastery_at_time,
\* retention, timestamp)
InsertAttempt(tbl, user_id, topic_id, correct, new, current_time) ==
  Append(tbl, [user_id |-> user_id, topic_id |-> topic_id,
               correct |-> correct, mastery_at_time |-> new.mastery,
               retention |-> new.retention, timestamp |-> current_time])

\* except Exception: rollback, raise; finally: disconnect
ra_raise(p, e) ==
  /\ Return(p, Failed(e))
  /\ UNCHANGED <<topics, user_progress, attempt_history, clock, lock, budget>>

\* db = get_db(); current_time = datetime.now()
call_record_answer(p, user_id, topic_id, correct) ==
  /\ Call(p, [NoFrame EXCEPT !.op = "record_answer", !.user_id = user_id,
                             !.topic_id = topic_id, !.correct = correct,
                             !.current_time = clock])
  /\ pc' = [pc EXCEPT ![p] = "ra_select"]
  /\ UNCHANGED <<topics, user_progress, attempt_history, clock, lock>>

ra_select(p) ==
  /\ pc[p] = "ra_select"
  /\ LET stats == Select(user_progress, frame[p].user_id, frame[p].topic_id)
     IN  /\ frame' = [frame EXCEPT ![p].stats = stats]
         /\ pc' = [pc EXCEPT ![p] = IF stats = {} THEN "ra_insert"
                                    ELSE "ra_update"]
  /\ UNCHANGED <<topics, user_progress, attempt_history, clock, lock, result,
                 budget>>

\* INSERT INTO user_progress ... VALUES (?, ?, 0, 0, 0.0, 0, 0, 2.5, 0, 0) and
\* its commit; UNIQUE(user_id, topic_id) rejects a second row of the key.
ra_insert(p) ==
  /\ pc[p] = "ra_insert"
  /\ CanWrite(p)
  /\ IF Select(user_progress, frame[p].user_id, frame[p].topic_id) # {}
       THEN ra_raise(p, "IntegrityError")
       ELSE /\ user_progress' = user_progress \cup
                                  {NewRow(frame[p].user_id, frame[p].topic_id)}
            /\ pc' = [pc EXCEPT ![p] = "ra_reselect"]
            /\ UNCHANGED <<topics, attempt_history, clock, lock, frame,
                           result, budget>>

\* The second SELECT; dict(None) raises when the row is gone again.
ra_reselect(p) ==
  /\ pc[p] = "ra_reselect"
  /\ LET stats == Select(user_progress, frame[p].user_id, frame[p].topic_id)
     IN  IF stats = {}
           THEN ra_raise(p, "TypeError")
           ELSE /\ frame' = [frame EXCEPT ![p].stats = stats]
                /\ pc' = [pc EXCEPT ![p] = "ra_update"]
                /\ UNCHANGED <<topics, user_progress, attempt_history, clock,
                               lock, result, budget>>

\* The computation on the fetched row, the UPDATE, the INSERT into
\* attempt_history and the commit.
ra_update(p) ==
  /\ pc[p] = "ra_update"
  /\ CanWrite(p)
  /\ LET stats == CHOOSE r \in frame[p].stats : TRUE
         new == Answered(stats, frame[p].correct, frame[p].current_time, clock)
     IN  IF new.error # "none"
           THEN ra_raise(p, new.error)
           ELSE /\ user_progress' =
                     UpdateProgress(user_progress, frame[p].user_id,
                                    frame[p].topic_id, new)
                /\ attempt_history' =
                     InsertAttempt(attempt_history, frame[p].user_id,
                                   frame[p].topic_id, frame[p].correct, new,
                                   frame[p].current_time)
                /\ Return(p, Ok)
                /\ UNCHANGED <<topics, clock, lock, budget>>

RecordAnswerPcs == {"ra_select", "ra_insert", "ra_reselect", "ra_update"}

\* The store fails in the statement that the call executes next.
ra_store_fails(p) ==
  /\ pc[p] \in RecordAnswerPcs
  /\ ra_raise(p, "StorageError")

\* --------------------------------------------------------- clear_user_state
call_clear_user_state(p, user_id) ==
  /\ Call(p, [NoFrame EXCEPT !.op = "clear_user_state", !.user_id = user_id])
  /\ pc' = [pc EXCEPT ![p] = "cl_delete"]
  /\ UNCHANGED <<topics, user_progress, attempt_history, clock, lock>>

\* DELETE FROM user_progress WHERE user_id = ?; DELETE FROM attempt_history
\* WHERE user_id = ?; commit
cl_delete(p) ==
  /\ pc[p] = "cl_delete"
  /\ CanWrite(p)
  /\ user_progress' = {r \in user_progress : r.user_id # frame[p].user_id}
  /\ attempt_history' = SelectSeq(attempt_history,
                                  LAMBDA h : h.user_id # frame[p].user_id)
  /\ Return(p, Ok)
  /\ UNCHANGED <<topics, clock, lock, budget>>

\* except Exception: print, rollback; the call returns normally.
clear_store_fails(p) ==
  /\ pc[p] = "cl_delete"
  /\ Return(p, Ok)
  /\ UNCHANGED <<topics, user_progress, attempt_history, clock, lock, budget>>

\* ---------------------------------------------------------------- registry
\* topics.clear()
topics_clear(p) ==
  /\ Start(p)
  /\ topics' = <<>>
  /\ Return(p, Ok)
  /\ UNCHANGED <<user_progress, attempt_history, clock, lock>>

\* topics.extend(json_data.get("topics", []))
load_topics_from_json(p, json_topics) ==
  /\ Start(p)
  /\ Len(topics) + Len(json_topics) <= MaxRegistry
  /\ topics' = topics \o json_topics
  /\ Return(p, Ok)
  /\ UNCHANGED <<user_progress, attempt_history, clock, lock>>

\* ---------------------------------------------------------- init_user_state
\* all_topics = get_all_topics(); the emptiness check; db = get_db()
call_init_user_state(p, user_id) ==
  /\ Call(p, [NoFrame EXCEPT !.op = "init_user_state", !.user_id = user_id])
  /\ pc' = [pc EXCEPT ![p] = "in_select"]
  /\ Len(topics) > 0
  /\ UNCHANGED <<topics, user_progress, attempt_history, clock, lock>>

init_user_state_empty(p, user_id) ==
  /\ Start(p)
  /\ Len(topics) = 0
  /\ Return(p, Failed(EmptyRegistry))
  /\ UNCHANGED <<topics, user_progress, attempt_history, clock, lock>>

\* Loop head and the SELECT progress_id of one iteration; the list iterator
\* reads the live list.  After the loop: commit.
in_select(p) ==
  /\ pc[p] = "in_select"
  /\ IF frame[p].index >= Len(topics)
       THEN /\ user_progress' = user_progress \cup frame[p].pending
            /\ lock' = IF lock = p THEN "none" ELSE lock
            /\ Return(p, Ok)
            /\ UNCHANGED <<topics, attempt_history, clock, budget>>
       ELSE LET topic_id == topics[frame[p].index + 1]
                existing == Select(user_progress \cup frame[p].pending,
                                   frame[p].user_id, topic_id)
            IN  /\ frame' = [frame EXCEPT ![p].topic_id = topic_id,
                                          ![p].index = @ + 1]
                /\ pc' = [pc EXCEPT ![p] = IF existing = {} THEN "in_insert"
                                           ELSE "in_select"]
                /\ UNCHANGED <<topics, user_progress, attempt_history, clock,
                               lock, result, budget>>

\* except Exception: print, rollback; the call returns normally.
in_swallow(p) ==
  /\ lock' = IF lock = p THEN "none" ELSE lock
  /\ Return(p, Ok)
  /\ UNCHANGED <<topics, user_progress, attempt_history, clock, budget>>

\* INSERT INTO user_progress ... VALUES (?, ?, 0, 0, 0.0, 0, 0, 2.5, 0, 0)
in_insert(p) ==
  /\ pc[p] = "in_insert"
  /\ CanWrite(p)
  /\ IF Select(user_progress \cup frame[p].pending, frame[p].user_id,
               frame[p].topic_id) # {}
       THEN in_swallow(p)
       ELSE /\ frame' = [frame EXCEPT ![p].pending =
                           @ \cup {NewRow(frame[p].user_id, frame[p].topic_id)}]
            /\ lock' = p
            /\ pc' = [pc EXCEPT ![p] = "in_select"]
            /\ UNCHANGED <<topics, user_progress, attempt_history, clock,
                           result, budget>>

in_store_fails(p) ==
  /\ pc[p] \in {"in_select", "in_insert"}
  /\ in_swallow(p)

\* ---------------------------------------------------------- priority ranker
\* The urgency of a row in thousandths: the branches on time_until_review,
\* the hours from current_time to next_review.
urgency_factor(next_review, current_time) ==
  LET time_until_review == 12 * (next_review - current_time)
  IN  IF next_review = NULL THEN 500
      ELSE IF time_until_review < 0
        THEN Min(2000, ((0 - time_until_review) * 1000) \div 24)
      ELSE IF time_until_review < 24 THEN 500
      ELSE 0

\* Mutation: the branch for rows that were never attempted is missing.
PriorityScore_no_new_topics(stats, current_time, time_now) ==
  LET mastery_factor == 1000 - stats.mastery
      ff == IF stats.last_reviewed # NULL
              THEN calculate_forgetting_factor(stats.last_reviewed,
                                               stats.mastery, time_now)
              ELSE Value(1000)
      forgetting_factor == 1000 - ff.value
  IN  IF ff.error # "none" THEN ff
      ELSE Value((mastery_factor * 400
                    + urgency_factor(stats.next_review, current_time) * 300
                    + forgetting_factor * 300) \div 1000)

\* The score that calculate_review_priority gives one row, in thousandths;
\* current_time is the function's own clock reading, time_now the one of
\* calculate_forgetting_factor.
PriorityScore(stats, current_time, time_now) ==
  IF stats.attempts = 0 THEN Value(NewTopicPriority)
  ELSE
    LET mastery_factor == 1000 - stats.mastery
        ff == IF stats.last_reviewed # NULL
                THEN calculate_forgetting_factor(stats.last_reviewed,
                                                 stats.mastery, time_now)
                ELSE Value(1000)
        forgetting_factor == 1000 - ff.value
    IN  IF ff.error # "none" THEN ff
        ELSE Value((mastery_factor * 400
                      + urgency_factor(stats.next_review, current_time) * 300
                      + forgetting_factor * 300) \div 1000)

\* The orders in which a SELECT without ORDER BY may deliver the rows.
Orderings(rows) ==
  {o \in [1..Cardinality(rows) -> rows] :
     \A i, j \in 1..Cardinality(rows) : i # j => o[i] # o[j]}

\* Mutation: the sort lacks reverse=True.
calculate_review_priority_ascending(tbl, user_id, current_time) ==
  LET rows == SelectUser(tbl, user_id)
      score(r) == PriorityScore(r, current_time, current_time).value
  IN  {[i \in 1..Cardinality(rows) |-> <<o[i].topic_id, score(o[i])>>] :
         o \in {q \in Orderings(rows) :
                  \A i \in 1..(Cardinality(rows) - 1) :
                     score(q[i]) <= score(q[i + 1])}}

\* The lists calculate_review_priority may return: (topic_id, score) pairs
\* sorted by score, highest first; rows of equal score stay in row order.
calculate_review_priority(tbl, user_id, current_time) ==
  LET rows == SelectUser(tbl, user_id)
      score(r) == PriorityScore(r, current_time, current_time).value
  IN  {[i \in 1..Cardinality(rows) |-> <<o[i].topic_id, score(o[i])>>] :
         o \in {q \in Orderings(rows) :
                  \A i \in 1..(Cardinality(rows) - 1) :
                     score(q[i]) >= score(q[i + 1])}}

\* Mutation: next_review < ? in place of next_review <= ?.
get_topics_needing_review_strict(tbl, user_id, current_time) ==
  {r.topic_id : r \in {q \in tbl : /\ q.user_id = user_id
                                   /\ q.next_review # NULL
                                   /\ q.next_review < current_time}}

\* SELECT topic_id FROM user_progress WHERE user_id = ?
\*   AND next_review IS NOT NULL AND next_review <= ?
get_topics_needing_review(tbl, user_id, current_time) ==
  {r.topic_id : r \in {q \in tbl : /\ q.user_id = user_id
                                   /\ q.next_review # NULL
                                   /\ q.next_review <= current_time}}

\* ------------------------------------------------------------ pick_next_topic
call_pick_next_topic(p, user_id) ==
  /\ Call(p, [NoFrame EXCEPT !.op = "pick_next_topic", !.user_id = user_id])
  /\ pc' = [pc EXCEPT ![p] = "pk_state"]
  /\ UNCHANGED <<topics, user_progress, attempt_history, clock, lock>>

\* Mutation: the emptiness check is missing.
pk_state_unchecked(p) ==
  /\ pc[p] = "pk_state"
  /\ frame' = [frame EXCEPT ![p].user_state =
                 {r.topic_id : r \in SelectUser(user_progress,
                                                frame[p].user_id)}]
  /\ pc' = [pc EXCEPT ![p] = "pk_overdue"]
  /\ UNCHANGED <<topics, user_progress, attempt_history, clock, lock, result,
                 budget>>

\* user_state = get_user_state(user_id) and the emptiness check
pk_state(p) ==
  /\ pc[p] = "pk_state"
  /\ LET user_state == {r.topic_id : r \in SelectUser(user_progress,
                                                      frame[p].user_id)}
     IN  IF user_state = {}
           THEN /\ Return(p, Failed(EmptyState))
                /\ UNCHANGED <<topics, user_progress, attempt_history, clock,
                               lock, budget>>
           ELSE /\ frame' = [frame EXCEPT ![p].user_state = user_state]
                /\ pc' = [pc EXCEPT ![p] = "pk_overdue"]
                /\ UNCHANGED <<topics, user_progress, attempt_history, clock,
                               lock, result, budget>>

\* overdue_topics = get_topics_needing_review(user_id); random.choice of it
pk_overdue(p) ==
  /\ pc[p] = "pk_overdue"
  /\ LET overdue_topics == get_topics_needing_review(user_progress,
                                                     frame[p].user_id, clock)
     IN  IF overdue_topics # {}
           THEN /\ \E topic_id \in overdue_topics :
                      Return(p, Outcome("ok", topic_id))
                /\ UNCHANGED <<topics, user_progress, attempt_history, clock,
                               lock, budget>>
           ELSE /\ pc' = [pc EXCEPT ![p] = "pk_priority"]
                /\ UNCHANGED <<topics, user_progress, attempt_history, clock,
                               lock, frame, result, budget>>

\* Mutation: random.choice over the whole priority list.
pk_priority_whole_list(p) ==
  /\ pc[p] = "pk_priority"
  /\ \E priority_list \in calculate_review_priority(user_progress,
                                                    frame[p].user_id, clock) :
       IF priority_list # <<>>
         THEN \E i \in 1..Len(priority_list) :
                Return(p, Outcome("ok", priority_list[i][1]))
         ELSE \E topic_id \in frame[p].user_state :
                Return(p, Outcome("ok", topic_id))
  /\ UNCHANGED <<topics, user_progress, attempt_history, clock, lock, budget>>

\* priority_list = calculate_review_priority(user_id); random.choice of its
\* first three entries, or of the keys of user_state when it is empty
pk_priority(p) ==
  /\ pc[p] = "pk_priority"
  /\ \E priority_list \in calculate_review_priority(user_progress,
                                                    frame[p].user_id, clock) :
       LET top_priorities == SubSeq(priority_list, 1,
                                    Min(TopN, Len(priority_list)))
       IN  IF top_priorities # <<>>
             THEN \E i \in 1..Len(top_priorities) :
                    Return(p, Outcome("ok", top_priorities[i][1]))
             ELSE \E topic_id \in frame[p].user_state :
                    Return(p, Outcome("ok", topic_id))
  /\ UNCHANGED <<topics, user_progress, attempt_history, clock, lock, budget>>

\* A read of the store fails; nothing catches the exception.
pk_store_fails(p) ==
  /\ pc[p] \in {"pk_state", "pk_overdue", "pk_priority"}
  /\ Return(p, Failed("StorageError"))
  /\ UNCHANGED <<topics, user_progress, attempt_history, clock, lock, budget>>

\* ------------------------------------------------------------ read queries
\* What a query hands back to its caller.
Returned(op, value) == [status |-> "ok", value |-> value, op |-> op]

\* Mutation: the streak_wrong >= 3 override is missing.
get_target_difficulty_no_override(tbl, user_id, topic_id) ==
  LET stats == Select(tbl, user_id, topic_id)
  IN  IF stats = {} THEN "easy"
      ELSE LET row == CHOOSE r \in stats : TRUE
               mastery == row.mastery
               streak_correct == row.streak_correct
           IN  IF streak_correct >= 5 /\ mastery > 700 THEN "hard"
               ELSE IF mastery < 300 THEN "easy"
               ELSE IF mastery < 600 THEN "medium"
               ELSE IF mastery < 850
                 THEN IF streak_correct < 3 THEN "medium" ELSE "hard"
               ELSE "hard"

\* The if/elif chain of get_target_difficulty on the fetched row.
get_target_difficulty(tbl, user_id, topic_id) ==
  LET stats == Select(tbl, user_id, topic_id)
  IN  IF stats = {} THEN "easy"
      ELSE LET row == CHOOSE r \in stats : TRUE
               mastery == row.mastery
               streak_correct == row.streak_correct
               streak_wrong == row.streak_wrong
           IN  IF streak_wrong >= 3 THEN "easy"
               ELSE IF streak_correct >= 5 /\ mastery > 700 THEN "hard"
               ELSE IF mastery < 300 THEN "easy"
               ELSE IF mastery < 600 THEN "medium"
               ELSE IF mastery < 850
                 THEN IF streak_correct < 3 THEN "medium" ELSE "hard"
               ELSE "hard"

call_get_target_difficulty(p, user_id, topic_id) ==
  /\ Call(p, [NoFrame EXCEPT !.op = "get_target_difficulty",
                             !.user_id = user_id, !.topic_id = topic_id])
  /\ pc' = [pc EXCEPT ![p] = "td_select"]
  /\ UNCHANGED <<topics, user_progress, attempt_history, clock, lock>>

td_select(p) ==
  /\ pc[p] = "td_select"
  /\ Return(p, Returned("get_target_difficulty",
                        get_target_difficulty(user_progress, frame[p].user_id,
                                              frame[p].topic_id)))
  /\ UNCHANGED <<topics, user_progress, attempt_history, clock, lock, budget>>

\* SELECT correct FROM attempt_history WHERE user_id = ? AND topic_id = ?
\* ORDER BY timestamp DESC LIMIT 5.  The rows of a key that one request
\* thread inserted one call after the other carry increasing timestamps, so
\* the latest rows by timestamp are the last rows inserted.
RecentAttempts(tbl, user_id, topic_id) ==
  LET h == SelectSeq(tbl, LAMBDA a : a.user_id = user_id
                                       /\ a.topic_id = topic_id)
  IN  SubSeq(h, Max(1, Len(h) - RecentLimit + 1), Len(h))

\* Mutation: the threshold on the number of records is missing.
get_learning_velocity_no_threshold(tbl, user_id, topic_id) ==
  LET history == RecentAttempts(tbl, user_id, topic_id)
      correct_count == Cardinality({index \in 1..Len(history) :
                                      history[index].correct})
  IN  IF Len(history) < 1 THEN 0
      ELSE (correct_count * 1000) \div Len(history)

\* velocity = correct_count / len(history), in thousandths
get_learning_velocity(tbl, user_id, topic_id) ==
  LET history == RecentAttempts(tbl, user_id, topic_id)
      correct_count == Cardinality({index \in 1..Len(history) :
                                      history[index].correct})
  IN  IF Len(history) < MinVelocitySamples THEN 0
      ELSE (correct_count * 1000) \div Len(history)

call_get_learning_velocity(p, user_id, topic_id) ==
  /\ Call(p, [NoFrame EXCEPT !.op = "get_learning_velocity",
                             !.user_id = user_id, !.topic_id = topic_id])
  /\ pc' = [pc EXCEPT ![p] = "lv_select"]
  /\ UNCHANGED <<topics, user_progress, attempt_history, clock, lock>>

lv_select(p) ==
  /\ pc[p] = "lv_select"
  /\ Return(p, Returned("get_learning_velocity",
                        get_learning_velocity(attempt_history,
                                              frame[p].user_id,
                                              frame[p].topic_id)))
  /\ UNCHANGED <<topics, user_progress, attempt_history, clock, lock, budget>>

\* ------------------------------------------------ get_recommended_study_order
call_get_recommended_study_order(p, user_id) ==
  /\ Call(p, [NoFrame EXCEPT !.op = "get_recommended_study_order",
                             !.user_id = user_id])
  /\ pc' = [pc EXCEPT ![p] = "so_rank"]
  /\ UNCHANGED <<topics, user_progress, attempt_history, clock, lock>>

\* priority_list = calculate_review_priority(user_id);
\* return [topic_id for topic_id, score in priority_list]
so_rank(p) ==
  /\ pc[p] = "so_rank"
  /\ \E priority_list \in calculate_review_priority(user_progress,
                                                    frame[p].user_id, clock) :
       Return(p, Returned("get_recommended_study_order",
                          [i \in 1..Len(priority_list) |->
                             priority_list[i][1]]))
  /\ UNCHANGED <<topics, user_progress, attempt_history, clock, lock, budget>>

\* -------------------------------------------------------------------- clock
Tick ==
  /\ clock < MaxTime
  /\ clock' = clock + 1
  /\ UNCHANGED <<topics, user_progress, attempt_history, lock, pc, frame,
                 result, budget>>

\* ------------------------------------------------------------ specification
record_answer(p) ==
  \/ \E user_id \in Learners, topic_id \in Topics, correct \in BOOLEAN :
       call_record_answer(p, user_id, topic_id, correct)
  \/ ra_select(p)
  \/ ra_insert(p)
  \/ ra_reselect(p)
  \/ ra_update(p)
  \/ ra_store_fails(p)

init_user_state(p) ==
  \/ \E user_id \in Learners : call_init_user_state(p, user_id)
  \/ \E user_id \in Learners : init_user_state_empty(p, user_id)
  \/ in_select(p)
  \/ in_insert(p)
  \/ in_store_fails(p)

pick_next_topic(p) ==
  \/ \E user_id \in Learners : call_pick_next_topic(p, user_id)
  \/ pk_state(p)
  \/ pk_overdue(p)
  \/ pk_priority(p)
  \/ pk_store_fails(p)

clear_user_state(p) ==
  \/ \E user_id \in Learners : call_clear_user_state(p, user_id)
  \/ cl_delete(p)
  \/ clear_store_fails(p)

Thread(p) ==
  \/ record_answer(p)
  \/ init_user_state(p)
  \/ pick_next_topic(p)
  \/ clear_user_state(p)
  \/ topics_clear(p)
  \/ \E json_topics \in TopicLists : load_topics_from_json(p, json_topics)

Next ==
  \/ \E p \in Procs : Thread(p)
  \/ Tick

Spec == Init /\ [][Next]_vars

\* One request at a time: a single request thread.
SeqInit == InitWith(MaxSeqCalls)

SeqNext ==
  \/ Thread("p1")
  \/ Tick

SeqSpec == SeqInit /\ [][SeqNext]_vars

\* One learner studying one topic: a single request thread that answers
\* questions of the topic and runs the read queries in between.
SessionLearner == 1
SessionTopic == "a"

Session(p) ==
  \/ \E correct \in BOOLEAN :
       call_record_answer(p, SessionLearner, SessionTopic, correct)
  \/ ra_select(p)
  \/ ra_insert(p)
  \/ ra_reselect(p)
  \/ ra_update(p)
  \/ ra_store_fails(p)
  \/ \E topic_id \in Topics :
       call_get_target_difficulty(p, SessionLearner, topic_id)
  \/ td_select(p)
  \/ \E topic_id \in Topics :
       call_get_learning_velocity(p, SessionLearner, topic_id)
  \/ lv_select(p)

SessionInit == InitWith(MaxSessionCalls)

SessionNext ==
  \/ Session("p1")
  \/ Tick

SessionSpec == SessionInit /\ [][SessionNext]_vars

\* The scheduler's pure functions applied to arguments of their own: the
\* arguments are drawn at the start, one of the functions is applied to
\* them, and the caller holds what it returned or raised.
EFInputs == {100, 130, 150, 196, 250, 300}
QualityInputs == (0 - 1)..6
MasteryInputs == {0 - 1, 0, 500, 1000, 1001}

FnArgs ==
  [easiness_factor : EFInputs, review_count : 0..MaxReviewCount,
   quality : QualityInputs, mastery : MasteryInputs,
   last_reviewed : {NULL} \cup 0..MaxTime]

Raised(op, e) == [status |-> e, value |-> "", op |-> op]

FnReturn(p, outcome) ==
  /\ pc' = [pc EXCEPT ![p] = "idle"]
  /\ result' = [result EXCEPT ![p] = outcome]
  /\ UNCHANGED <<topics, user_progress, attempt_history, clock, lock, frame,
                 budget>>

apply_update_easiness_factor(p) ==
  /\ pc[p] = "fn_apply"
  /\ FnReturn(p, Returned("update_easiness_factor",
                          update_easiness_factor(
                            frame[p].args.easiness_factor,
                            frame[p].args.quality)))

apply_calculate_sm2_interval(p) ==
  /\ pc[p] = "fn_apply"
  /\ LET r == calculate_sm2_interval(frame[p].args.easiness_factor,
                                     frame[p].args.review_count,
                                     frame[p].args.quality)
     IN  FnReturn(p, IF r.error # "none"
                       THEN Raised("calculate_sm2_interval", r.error)
                       ELSE Returned("calculate_sm2_interval",
                                     <<r.interval, r.review_count>>))

apply_calculate_forgetting_factor(p) ==
  /\ pc[p] = "fn_apply"
  /\ LET r == calculate_forgetting_factor(frame[p].args.last_reviewed,
                                          frame[p].args.mastery, clock)
     IN  FnReturn(p, IF r.error # "none"
                       THEN Raised("calculate_forgetting_factor", r.error)
                       ELSE Returned("calculate_forgetting_factor", r.value))

FnInit ==
  \E args \in FnArgs :
    /\ topics = <<>>
    /\ user_progress = {}
    /\ attempt_history = <<>>
    /\ clock = 0
    /\ lock = "none"
    /\ pc = [p \in Procs |-> IF p = "p1" THEN "fn_apply" ELSE "idle"]
    /\ frame = [p \in Procs |-> IF p = "p1"
                                  THEN [op |-> "pure", args |-> args]
                                  ELSE NoFrame]
    /\ result = [p \in Procs |-> Outcome("none", "")]
    /\ budget = 0

FnNext ==
  \/ apply_update_easiness_factor("p1")
  \/ apply_calculate_sm2_interval("p1")
  \/ apply_calculate_forgetting_factor("p1")
  \/ Tick

FnSpec == FnInit /\ [][FnNext]_vars

\* The picker on a registry of four topics.  The start is a store that
\* load_topics_from_json, init_user_state and first answers at time 0 leave
\* behind: each topic of the learner is without a state, has the zeroed
\* state, or has the state and the record of one correct or one wrong answer;
\* a second learner may hold the zeroed state of the first topic.
PickRegistry == <<"a", "b", "c", "d">>
SeedKinds == {"absent", "new", "correct", "wrong"}
OtherLearner == 2

SeedAnswer(kind) == Answered(NewRow(SessionLearner, ""), kind = "correct", 0, 0)

SeedRow(kind, topic_id) ==
  IF kind = "new" THEN NewRow(SessionLearner, topic_id)
  ELSE CHOOSE r \in UpdateProgress({NewRow(SessionLearner, topic_id)},
                                   SessionLearner, topic_id,
                                   SeedAnswer(kind)) : TRUE

RECURSIVE SeedHistory(_, _)
SeedHistory(kinds, n) ==
  IF n = 0 THEN <<>>
  ELSE IF kinds[n] \in {"correct", "wrong"}
    THEN InsertAttempt(SeedHistory(kinds, n - 1), SessionLearner,
                       PickRegistry[n], kinds[n] = "correct",
                       SeedAnswer(kinds[n]), 0)
  ELSE SeedHistory(kinds, n - 1)

PickInit ==
  \E kinds \in [1..Len(PickRegistry) -> SeedKinds] :
    /\ topics = PickRegistry
    /\ \E others \in SUBSET {NewRow(OtherLearner, PickRegistry[1])} :
         user_progress = others \cup
                           {SeedRow(kinds[i], PickRegistry[i]) :
                              i \in {j \in 1..Len(PickRegistry) :
                                       kinds[j] # "absent"}}
    /\ attempt_history = SeedHistory(kinds, Len(PickRegistry))
    /\ clock = 0
    /\ lock = "none"
    /\ pc = [p \in Procs |-> "idle"]
    /\ frame = [p \in Procs |-> NoFrame]
    /\ result = [p \in Procs |-> Outcome("none", "")]
    /\ budget = MaxPickCalls

PickNext ==
  \/ pick_next_topic("p1")
  \/ \E user_id \in Learners : call_get_recommended_study_order("p1", user_id)
  \/ so_rank("p1")
  \/ Tick

PickSpec == PickInit /\ [][PickNext]_vars

\* The upload handler and the picker, one request at a time, for both
\* learners.  The handler replaces the registry by the topics of the
\* uploaded document and the state of the uploading learner by zeroed states
\* of these topics: topics.clear(); clear_user_state(current_user.id);
\* load_topics_from_json(topic_data); init_user_state(current_user.id).  The
\* store statements of the two calls succeed.
UploadLists == {<<"a">>, <<"b">>, <<"a", "b">>}

upload_document(p, user_id, json_topics) ==
  /\ Start(p)
  /\ topics' = <<>> \o json_topics
  /\ user_progress' = {r \in user_progress : r.user_id # user_id}
                        \cup {NewRow(user_id, json_topics[i]) :
                                i \in 1..Len(json_topics)}
  /\ attempt_history' = SelectSeq(attempt_history,
                                  LAMBDA h : h.user_id # user_id)
  /\ Return(p, Ok)
  /\ UNCHANGED <<clock, lock>>

UploadInit == InitWith(MaxUploadCalls)

UploadNext ==
  \/ \E user_id \in Learners, json_topics \in UploadLists :
       upload_document("p1", user_id, json_topics)
  \/ pick_next_topic("p1")

UploadSpec == UploadInit /\ [][UploadNext]_vars

\* Two request threads that run init_user_state and record_answer calls,
\* and no other call, on a loaded registry and a working store.
RaceRegistry == <<"a", "b">>

RaceInit ==
  /\ topics = RaceRegistry
  /\ user_progress = {}
  /\ attempt_history = <<>>
  /\ clock = 0
  /\ lock = "none"
  /\ pc = [p \in Procs |-> "idle"]
  /\ frame = [p \in Procs |-> NoFrame]
  /\ result = [p \in Procs |-> Outcome("none", "")]
  /\ budget = MaxRaceCalls

RaceNext ==
  \E p \in Procs :
    \/ \E user_id \in Learners : call_init_user_state(p, user_id)
    \/ in_select(p)
    \/ in_insert(p)
    \/ \E user_id \in Learners, topic_id \in Topics, correct \in BOOLEAN :
         call_record_answer(p, user_id, topic_id, correct)
    \/ ra_select(p)
    \/ ra_insert(p)
    \/ ra_reselect(p)
    \/ ra_update(p)

RaceSpec == RaceInit /\ [][RaceNext]_vars

\* ------------------------------------------------------------------ claims
PickPcs == {"pk_state", "pk_overdue", "pk_priority"}

\* The attempt records of one key, oldest first.
KeyHistory(user_id, topic_id) ==
  SelectSeq(attempt_history,
            LAMBDA h : h.user_id = user_id /\ h.topic_id = topic_id)

\* The attempt records of all other keys.
OtherHistory(tbl, user_id, topic_id) ==
  SelectSeq(tbl, LAMBDA h : ~(h.user_id = user_id /\ h.topic_id = topic_id))

OtherRows(tbl, user_id, topic_id) ==
  {r \in tbl : ~(r.user_id = user_id /\ r.topic_id = topic_id)}

\* Length of the run of records with correct = c that ends the history h.
RECURSIVE Trailing(_, _)
Trailing(h, c) ==
  IF h = <<>> THEN 0
  ELSE IF h[Len(h)].correct # c THEN 0
  ELSE 1 + Trailing(SubSeq(h, 1, Len(h) - 1), c)

\* The topics of a learner whose next_review is set and has passed.
OverdueTopics(user_id) ==
  {t \in Topics : \E r \in user_progress :
     /\ r.user_id = user_id /\ r.topic_id = t
     /\ r.next_review # NULL /\ clock >= r.next_review}

\* C1: a record_answer call that ends in an error leaves the store as it was
\* before the call: the failing statement changes no table, and a call that
\* found no row for its key and fails after its lazy INSERT leaves the key
\* without a row.
C1_FailedAnswerLeavesStore ==
  [][\A p \in Procs :
       (pc[p] \in RecordAnswerPcs /\ pc'[p] = "idle"
          /\ result'[p].status # "ok")
       => /\ user_progress' = user_progress
          /\ attempt_history' = attempt_history
          /\ (pc[p] = "ra_reselect"
                => Select(user_progress', frame[p].user_id,
                          frame[p].topic_id) = {})]_vars

\* C2: no update is lost: every record_answer call that completes
\* successfully leaves attempts one higher than the stored row had it, correct
\* higher by one exactly when the answer was correct, and one more
\* AttemptRecord, so that two successful calls raise attempts by two.
C2_NoLostUpdate ==
  [][\A p \in Procs :
       (pc[p] = "ra_update" /\ pc'[p] = "idle" /\ result'[p].status = "ok")
       => /\ Len(attempt_history') = Len(attempt_history) + 1
          /\ \A r \in Select(user_progress, frame[p].user_id,
                             frame[p].topic_id) :
               \E q \in Select(user_progress', frame[p].user_id,
                               frame[p].topic_id) :
                 /\ q.attempts = r.attempts + 1
                 /\ q.correct = r.correct
                                  + (IF frame[p].correct THEN 1 ELSE 0)]_vars

\* C3: the store never holds an AttemptRecord of a record_answer call whose
\* state update was not persisted: every AttemptRecord belongs to a key that
\* has a state.
C3_NoAttemptWithoutState ==
  \A i \in 1..Len(attempt_history) :
    Select(user_progress, attempt_history[i].user_id,
           attempt_history[i].topic_id) # {}

\* C4: no step of a record_answer call changes the state or the history of a
\* key other than the call's own (learner, topic), whatever the other request
\* thread is doing.
C4_OtherKeysUntouched ==
  [][\A p \in Procs :
       (pc[p] \in RecordAnswerPcs /\ pc'[p] # pc[p])
       => /\ OtherRows(user_progress', frame[p].user_id, frame[p].topic_id)
               = OtherRows(user_progress, frame[p].user_id, frame[p].topic_id)
          /\ OtherHistory(attempt_history', frame[p].user_id,
                          frame[p].topic_id)
               = OtherHistory(attempt_history, frame[p].user_id,
                              frame[p].topic_id)]_vars

\* Two topics of one learner were answered, with different outcomes.
C4_Witness ==
  \E r1, r2 \in user_progress :
    /\ r1.user_id = r2.user_id /\ r1.topic_id # r2.topic_id
    /\ r1.attempts = 1 /\ r2.attempts = 1 /\ r1.correct # r2.correct
    /\ Len(attempt_history) = 2

\* C5: in every stored state both streaks are >= 0 and at most one of them
\* is nonzero.
C5_StreaksExclusive ==
  \A r \in user_progress :
    /\ r.streak_correct >= 0
    /\ r.streak_wrong >= 0
    /\ (r.streak_correct = 0 \/ r.streak_wrong = 0)

\* A wrong answer came after a correct one and reset the correct streak.
C5_Witness ==
  \E r \in user_progress :
    r.correct > 0 /\ r.streak_wrong > 0 /\ r.streak_correct = 0

\* C6: in every stored state 0 <= correct <= attempts.
C6_CorrectWithinAttempts ==
  \A r \in user_progress : 0 <= r.correct /\ r.correct <= r.attempts

\* A key with a correct and a wrong answer.
C6_Witness ==
  \E r \in user_progress : 0 < r.correct /\ r.correct < r.attempts

\* update_easiness_factor over all its inputs of the valid range.
UpdateEasinessInRange ==
  \A ef \in EFMin..EFMax, quality \in 0..5 :
    /\ EFMin <= update_easiness_factor(ef, quality)
    /\ update_easiness_factor(ef, quality) <= EFMax

\* C7: easiness_factor is 2.5 in a state that has no answer yet, lies in
\* [1.3, 2.5] in every stored state, and update_easiness_factor maps every ef
\* in [1.3, 2.5] and quality in 0..5 into [1.3, 2.5].
C7_EasinessInRange ==
  /\ \A r \in user_progress :
       /\ EFMin <= r.easiness_factor /\ r.easiness_factor <= EFMax
       /\ (r.attempts = 0 => r.easiness_factor = 250)
  /\ UpdateEasinessInRange

\* Three wrong answers: 2.5, 1.96, 1.42 and then the floor 1.3.
C7_Witness ==
  \E r \in user_progress : r.attempts = 3 /\ r.easiness_factor = 130

\* C8: streak_correct is the number of correct answers that end the key's
\* history and streak_wrong the number of wrong answers that end it: N
\* correct answers in a row give streak_correct = N and streak_wrong = 0, and
\* a wrong answer after them gives streak_wrong = 1 and streak_correct = 0.
C8_StreaksCountRuns ==
  \A r \in user_progress :
    /\ r.streak_correct = Trailing(KeyHistory(r.user_id, r.topic_id), TRUE)
    /\ r.streak_wrong = Trailing(KeyHistory(r.user_id, r.topic_id), FALSE)

\* Two correct answers on a fresh topic, then a wrong one.
C8_Witness ==
  \E r \in user_progress :
    LET h == KeyHistory(r.user_id, r.topic_id)
    IN  /\ Len(h) = 3
        /\ h[1].correct /\ h[2].correct /\ ~h[3].correct
        /\ r.streak_wrong = 1 /\ r.streak_correct = 0

\* C9: when the overdue query of pick_next_topic runs while the learner has
\* a topic whose next_review is set and has passed, the call ends there, and
\* the topic it returns is one of the overdue topics; a learner with an
\* overdue topic is never reported as having no state.
C9_PicksOverdue ==
  [][\A p \in Procs :
       (pc[p] \in {"pk_state", "pk_overdue"} /\ pc'[p] # pc[p]
          /\ OverdueTopics(frame[p].user_id) # {})
       => /\ result'[p].status # EmptyState
          /\ (pc[p] = "pk_overdue"
                => /\ pc'[p] = "idle"
                   /\ (result'[p].status = "ok"
                         => result'[p].value
                              \in OverdueTopics(frame[p].user_id)))]_vars

\* A learner with two topics, exactly one of them overdue, and that one was
\* returned.
C9_Witness ==
  \E user_id \in Learners :
    /\ Cardinality(SelectUser(user_progress, user_id)) = 2
    /\ pc["p1"] = "idle"
    /\ result["p1"].status = "ok"
    /\ OverdueTopics(user_id) = {result["p1"].value}

\* C10: pick_next_topic for a learner without topic states ends at its
\* emptiness check with an error and without a topic (EmptyState, unless the
\* read itself fails), and no step of pick_next_topic changes a table.
C10_EmptyStateFails ==
  [][\A p \in Procs :
       ((pc[p] \in PickPcs \/ pc'[p] \in PickPcs) /\ pc'[p] # pc[p])
       => /\ user_progress' = user_progress
          /\ attempt_history' = attempt_history
          /\ topics' = topics
          /\ (pc[p] = "pk_state"
                /\ SelectUser(user_progress, frame[p].user_id) = {}
                => /\ pc'[p] = "idle"
                   /\ result'[p].status \in {EmptyState, "StorageError"}
                   /\ result'[p].value = "")]_vars

\* The call failed with EmptyState although another learner has states.
C10_Witness ==
  /\ result["p1"].status = EmptyState
  /\ user_progress # {}

\* The row of a learner's topic (UNIQUE(user_id, topic_id)).
RowsOf(user_id, topic_id) == Select(user_progress, user_id, topic_id)

\* C11: in every list that calculate_review_priority can return, a topic
\* with attempts = 0 has the score 100.0, a topic with attempts > 0 has a
\* score strictly below 100.0, and every unattempted topic stands before
\* every attempted one.
C11_UnattemptedFirst ==
  \A user_id \in Learners :
    \A priority_list \in calculate_review_priority(user_progress, user_id,
                                                   clock) :
      /\ Len(priority_list) = Cardinality(SelectUser(user_progress, user_id))
      /\ \A i \in 1..Len(priority_list) :
           \A r \in RowsOf(user_id, priority_list[i][1]) :
             /\ r.attempts = 0 => priority_list[i][2] = 100000
             /\ r.attempts > 0 => priority_list[i][2] < 100000
             /\ r.attempts > 0 =>
                  \A j \in 1..Len(priority_list) :
                    (\E q \in RowsOf(user_id, priority_list[j][1]) :
                       q.attempts = 0) => j < i

\* pick_next_topic ranked a learner's two topics, one answered and not yet
\* due, one never attempted, and returned one of them.
C11_Witness ==
  \E user_id \in Learners :
    /\ \E r, q \in SelectUser(user_progress, user_id) :
         r.attempts = 0 /\ q.attempts > 0
    /\ get_topics_needing_review(user_progress, user_id, clock) = {}
    /\ pc["p1"] = "idle"
    /\ result["p1"].status = "ok"
    /\ result["p1"].value \in Topics

\* The decision table of the difficulty chooser, evaluated top to bottom on
\* the set of rows of a key (empty when the key has no state).
DifficultyTable(stats) ==
  IF stats = {} THEN "easy"
  ELSE LET s == CHOOSE r \in stats : TRUE
       IN  CASE s.attempts = 0 -> "easy"
             [] s.streak_wrong >= 3 -> "easy"
             [] s.streak_correct >= 5 /\ s.mastery > 700 -> "hard"
             [] s.mastery < 300 -> "easy"
             [] s.mastery < 600 -> "medium"
             [] s.mastery < 850 /\ s.streak_correct < 3 -> "medium"
             [] s.mastery < 850 -> "hard"
             [] OTHER -> "hard"

\* Rows with at least one answer, over the thresholds of the table.
DifficultyGrid ==
  {[NewRow(1, "a") EXCEPT !.attempts = 1, !.mastery = m,
                          !.streak_correct = sc, !.streak_wrong = sw] :
     m \in {0, 299, 300, 599, 600, 700, 701, 849, 850, 900, 1000},
     sc \in 0..6, sw \in 0..4}

DifficultyGridAgrees ==
  \A row \in DifficultyGrid :
    get_target_difficulty({row}, 1, "a") = DifficultyTable({row})

\* C12: get_target_difficulty returns what the decision table gives: for
\* every key of every reachable store, for the key of every call that
\* returns, and for every row with at least one answer on the grid of
\* thresholds (streak_wrong >= 3 gives easy even at mastery 0.9).
C12_DifficultyTable ==
  [][/\ DifficultyGridAgrees
     /\ \A user_id \in Learners, topic_id \in Topics :
          get_target_difficulty(user_progress, user_id, topic_id)
            = DifficultyTable(Select(user_progress, user_id, topic_id))
     /\ \A p \in Procs :
          (pc[p] = "td_select" /\ pc'[p] = "idle")
          => result'[p].value
               = DifficultyTable(Select(user_progress, frame[p].user_id,
                                        frame[p].topic_id))]_vars

\* After three wrong answers in a row the mastery alone (0.3) would give
\* medium; the call returned easy.
C12_Witness ==
  /\ "op" \in DOMAIN result["p1"]
  /\ result["p1"].op = "get_target_difficulty"
  /\ result["p1"].value = "easy"
  /\ \E r \in Select(user_progress, SessionLearner, SessionTopic) :
       r.streak_wrong >= 3 /\ r.mastery >= 300

InitPcs == {"in_select", "in_insert"}

\* C13: when init_user_state returns normally, every topic of the registry
\* has a state for the learner and every row the call added is the zeroed
\* row; a call on an empty registry ends with EmptyRegistry and leaves the
\* tables alone, and no call gets past the check with an empty registry.
C13_InitSeedsRegistry ==
  [][\A p \in Procs :
       /\ (pc[p] \in InitPcs /\ pc'[p] = "idle" /\ result'[p].status = "ok")
          => /\ \A i \in 1..Len(topics) :
                  Select(user_progress', frame[p].user_id, topics[i]) # {}
             /\ \A r \in user_progress' \ user_progress :
                  r = NewRow(frame[p].user_id, r.topic_id)
       /\ (pc[p] = "idle" /\ budget' # budget
             /\ result'[p].status = EmptyRegistry)
          => /\ topics = <<>>
             /\ user_progress' = user_progress
             /\ attempt_history' = attempt_history
       /\ (pc[p] = "idle" /\ pc'[p] = "in_select") => topics # <<>>]_vars

\* Number of correct records among the last n records of the history h.
CorrectAmongLast(h, n) ==
  Cardinality({i \in 1..Len(h) : i > Len(h) - n /\ h[i].correct})

\* The velocity of a key as the claim states it, in thousandths.
VelocityOf(user_id, topic_id) ==
  LET h == KeyHistory(user_id, topic_id)
  IN  IF Len(h) < 3 THEN 0
      ELSE (CorrectAmongLast(h, 5) * 1000) \div Min(5, Len(h))

\* C14: get_learning_velocity is 0.0 for a key with fewer than 3
\* AttemptRecords, whatever their correctness, and otherwise the fraction of
\* correct records among the 5 most recent ones, a value in [0, 1]: for
\* every key of every reachable store and for every call that returns.
C14_LearningVelocity ==
  [][/\ \A user_id \in Learners, topic_id \in Topics :
          LET v == get_learning_velocity(attempt_history, user_id, topic_id)
          IN  /\ v = VelocityOf(user_id, topic_id)
              /\ 0 <= v /\ v <= 1000
              /\ Len(KeyHistory(user_id, topic_id)) < 3 => v = 0
     /\ \A p \in Procs :
          (pc[p] = "lv_select" /\ pc'[p] = "idle")
          => result'[p].value
               = VelocityOf(frame[p].user_id, frame[p].topic_id)]_vars

\* Six records, the oldest one wrong and the five latest correct: the call
\* returned 1.0, the oldest record is not counted.
C14_Witness ==
  /\ "op" \in DOMAIN result["p1"]
  /\ result["p1"].op = "get_learning_velocity"
  /\ result["p1"].value = 1000
  /\ LET h == KeyHistory(SessionLearner, SessionTopic)
     IN  Len(h) = 6 /\ ~h[1].correct

\* C15: update_easiness_factor and calculate_sm2_interval, applied to a
\* quality outside [0, 5], raise ValueError (InvalidArgument) and return no
\* value.
C15_QualityValidated ==
  [][\A p \in Procs :
       (pc[p] = "fn_apply" /\ pc'[p] = "idle"
          /\ result'[p].op \in {"update_easiness_factor",
                                "calculate_sm2_interval"}
          /\ frame[p].args.quality \notin 0..5)
       => result'[p].status = "ValueError"]_vars

\* C16: calculate_forgetting_factor raises ValueError (InvalidArgument) for
\* every mastery outside [0, 1], with last_reviewed set or None, and returns
\* 1.0 for last_reviewed = None when the mastery is valid.
C16_MasteryValidated ==
  [][\A p \in Procs :
       (pc[p] = "fn_apply" /\ pc'[p] = "idle"
          /\ result'[p].op = "calculate_forgetting_factor")
       => /\ frame[p].args.mastery \notin 0..1000
               => result'[p].status = "ValueError"
          /\ (frame[p].args.mastery \in 0..1000
                /\ frame[p].args.last_reviewed = NULL)
               => result'[p] = Returned("calculate_forgetting_factor",
                                        1000)]_vars

\* C17: a call of init_user_state, clear_user_state or record_answer that
\* returns normally has made its writes: after init_user_state every
\* registry topic has a state, after clear_user_state the learner has neither
\* states nor attempt records, after record_answer the attempt is appended.
C17_NoSwallowedFailure ==
  [][\A p \in Procs :
       (pc'[p] = "idle" /\ result'[p].status = "ok")
       => /\ pc[p] \in InitPcs
               => \A i \in 1..Len(topics) :
                    Select(user_progress', frame[p].user_id, topics[i]) # {}
          /\ pc[p] = "cl_delete"
               => /\ SelectUser(user_progress', frame[p].user_id) = {}
                  /\ \A i \in 1..Len(attempt_history') :
                       attempt_history'[i].user_id # frame[p].user_id
          /\ pc[p] \in RecordAnswerPcs
               => Len(attempt_history') = Len(attempt_history) + 1]_vars

\* C18: one call uses one reading of the clock: the retention that
\* record_answer stores in the AttemptRecord (and blends into the mastery) is
\* the decay up to the call's own timestamp, and pick_next_topic ranks by
\* priority only when no topic is overdue at the time of the ranking.
C18_ClockReadOnce ==
  [][\A p \in Procs :
       /\ (pc[p] = "ra_update" /\ pc'[p] = "idle"
             /\ result'[p].status = "ok")
          => \A stats \in frame[p].stats :
               LET a == attempt_history'[Len(attempt_history')]
               IN  /\ a.timestamp = frame[p].current_time
                   /\ a.retention
                        = calculate_forgetting_factor(
                            stats.last_reviewed, stats.mastery,
                            frame[p].current_time).value
       /\ (pc[p] = "pk_priority" /\ pc'[p] = "idle"
             /\ result'[p].status = "ok")
          => get_topics_needing_review(user_progress, frame[p].user_id,
                                       clock) = {}]_vars

\* The reference table of the interval scheduler: <<interval, review_count>>
\* for a quality in 0..5; round() is the nearest integer, a tie going to the
\* even neighbour.
IntervalTable(ef, review_count, quality) ==
  IF quality < 3 THEN <<1, 0>>
  ELSE CASE review_count = 0 -> <<1, review_count + 1>>
         [] review_count = 1 -> <<6, review_count + 1>>
         [] OTHER -> <<Round(review_count * Max(130, Min(250, ef)), 100),
                       review_count + 1>>

\* C19: calculate_sm2_interval applied to a quality in 0..5 returns the pair
\* of the reference table, for every easiness factor and review count
\* (ef = 2.5, review_count = 2, quality = 4 gives (5, 3)).
C19_IntervalTable ==
  [][\A p \in Procs :
       (pc[p] = "fn_apply" /\ pc'[p] = "idle"
          /\ result'[p].op = "calculate_sm2_interval"
          /\ frame[p].args.quality \in 0..5)
       => /\ result'[p].status = "ok"
          /\ result'[p].value
               = IntervalTable(frame[p].args.easiness_factor,
                               frame[p].args.review_count,
                               frame[p].args.quality)
          /\ (frame[p].args.easiness_factor = 250
                /\ frame[p].args.review_count = 2
                /\ frame[p].args.quality = 4)
             => result'[p].value = <<5, 3>>]_vars

\* The spec's example was applied and gave (5, 3).
C19_Witness ==
  /\ pc["p1"] = "idle"
  /\ "op" \in DOMAIN result["p1"]
  /\ result["p1"].op = "calculate_sm2_interval"
  /\ result["p1"].status = "ok"
  /\ frame["p1"].args.easiness_factor = 250
  /\ frame["p1"].args.review_count = 2
  /\ frame["p1"].args.quality = 4
  /\ result["p1"].value = <<5, 3>>

\* The urgency as the claim states it, in thousandths; a topic is overdue
\* when get_topics_needing_review reports it (next_review <= now).
UrgencyTable(next_review, now) ==
  CASE next_review = NULL -> 500
    [] next_review # NULL /\ next_review <= now
         -> Min(2000, (12 * (now - next_review) * 1000) \div 24)
    [] next_review # NULL /\ next_review > now
         /\ 12 * (next_review - now) < 24 -> 500
    [] OTHER -> 0

\* C20: for every row with at least one answer the score of
\* calculate_review_priority is 0.4 * (1 - mastery) + 0.3 * urgency
\* + 0.3 * (1 - retention) with the urgency of the table, and a topic that
\* get_topics_needing_review reports as overdue gets the overdue branch of
\* the urgency.
C20_PriorityFormula ==
  \A r \in user_progress :
    r.attempts > 0 =>
      LET retention == calculate_forgetting_factor(r.last_reviewed, r.mastery,
                                                   clock).value
          urgency == UrgencyTable(r.next_review, clock)
      IN  /\ PriorityScore(r, clock, clock).value
               = ((1000 - r.mastery) * 400 + urgency * 300
                    + (1000 - retention) * 300) \div 1000
          /\ r.topic_id \in get_topics_needing_review(user_progress, r.user_id,
                                                      clock)
               => urgency_factor(r.next_review, clock)
                    = Min(2000, (12 * (clock - r.next_review) * 1000) \div 24)

\* C21: the mastery that a successful record_answer stores is
\* 0.7 * correct / attempts of the updated counters plus 0.3 * retention,
\* the retention being the decay of the previous mastery since the previous
\* last_reviewed (1.0 on the first answer); every stored mastery lies in
\* [0, 1], and it is 1.0 after a first correct and 0.3 after a first wrong
\* answer.
C21_MasteryBlend ==
  [][/\ \A r \in user_progress :
          /\ 0 <= r.mastery /\ r.mastery <= 1000
          /\ (r.attempts = 1 /\ r.correct = 1) => r.mastery = 1000
          /\ (r.attempts = 1 /\ r.correct = 0) => r.mastery = 300
     /\ \A p \in Procs :
          (pc[p] = "ra_update" /\ pc'[p] = "idle"
             /\ result'[p].status = "ok")
          => \A prev \in frame[p].stats :
               \A r \in Select(user_progress', frame[p].user_id,
                               frame[p].topic_id) :
                 LET retention ==
                       IF prev.last_reviewed = NULL THEN 1000
                       ELSE calculate_forgetting_factor(
                              prev.last_reviewed, prev.mastery, clock).value
                 IN  /\ r.mastery = (r.correct * 700) \div r.attempts
                                      + (retention * 300) \div 1000
                     /\ attempt_history'[Len(attempt_history')].retention
                          = retention
                     /\ attempt_history'[Len(attempt_history')].mastery_at_time
                          = r.mastery]_vars

\* A correct answer half a day after a wrong one: accuracy 1/2 and the
\* decayed retention give a mastery strictly between 0.35 and 0.65.
C21_Witness ==
  \E r \in user_progress :
    /\ r.attempts = 2 /\ r.correct = 1 /\ r.streak_correct = 1
    /\ 350 < r.mastery /\ r.mastery < 650

\* C22: a successful record_answer stores the call's own timestamp as
\* last_reviewed; in every stored state last_reviewed and next_review are set
\* exactly when attempts > 0, and then interval_days >= 1 and next_review is
\* last_reviewed plus interval_days days, so that get_topics_needing_review
\* reports the topic only when at least one day has passed since the answer.
C22_ReviewSchedule ==
  [][/\ \A r \in user_progress :
          /\ (r.attempts > 0) = (r.last_reviewed # NULL)
          /\ (r.attempts > 0) = (r.next_review # NULL)
          /\ r.attempts > 0
               => /\ r.interval_days >= 1
                  /\ r.next_review
                       = r.last_reviewed + r.interval_days * TicksPerDay
          /\ r.topic_id \in get_topics_needing_review(user_progress,
                                                      r.user_id, clock)
               => clock >= r.last_reviewed + TicksPerDay
     /\ \A p \in Procs :
          (pc[p] = "ra_update" /\ pc'[p] = "idle"
             /\ result'[p].status = "ok")
          => \A r \in Select(user_progress', frame[p].user_id,
                             frame[p].topic_id) :
               r.last_reviewed = frame[p].current_time]_vars

\* A topic answered a day ago with interval 1 is reported for review.
C22_Witness ==
  \E r \in user_progress :
    /\ r.attempts > 0 /\ r.interval_days = 1
    /\ clock = r.last_reviewed + TicksPerDay
    /\ r.topic_id \in get_topics_needing_review(user_progress, r.user_id,
                                                clock)

\* Number of records of the history h with correct = TRUE.
CorrectRecords(h) == Cardinality({i \in 1..Len(h) : h[i].correct})

TopOf(priority_list) ==
  {priority_list[i][1] : i \in 1..Min(3, Len(priority_list))}

\* C24: a pick_next_topic call that finds topic states and no overdue topic
\* goes on to the ranking, and the topic it returns from there is among the
\* first min(3, number of topics) entries of a ranking that
\* calculate_review_priority can return; every topic that pick_next_topic
\* returns is one for which the learner has a state.
C24_PicksFromTopThree ==
  [][\A p \in Procs :
       /\ (pc[p] = "pk_overdue" /\ pc'[p] # pc[p]
             /\ get_topics_needing_review(user_progress, frame[p].user_id,
                                          clock) = {}
             /\ result'[p].status # "StorageError")
          => pc'[p] = "pk_priority"
       /\ (pc[p] = "pk_priority" /\ pc'[p] = "idle"
             /\ result'[p].status = "ok")
          => \E priority_list \in calculate_review_priority(
                                    user_progress, frame[p].user_id, clock) :
               result'[p].value \in TopOf(priority_list)
       /\ (pc[p] \in PickPcs /\ pc'[p] = "idle" /\ result'[p].status = "ok")
          => Select(user_progress, frame[p].user_id, result'[p].value)
               # {}]_vars

\* Four topic states, none overdue, the scores of the third and the fourth
\* differ: the call returned one of the three topics ranked above the last.
C24_Witness ==
  /\ Cardinality(SelectUser(user_progress, SessionLearner)) = 4
  /\ get_topics_needing_review(user_progress, SessionLearner, clock) = {}
  /\ pc["p1"] = "idle"
  /\ result["p1"].status = "ok"
  /\ "op" \notin DOMAIN result["p1"]
  /\ \A priority_list \in calculate_review_priority(user_progress,
                                                    SessionLearner, clock) :
       /\ priority_list[3][2] > priority_list[4][2]
       /\ result["p1"].value \in TopOf(priority_list)

\* C25: every list that calculate_review_priority can return for a learner
\* has exactly one entry for each topic state of that learner, with that
\* row's score, and none for other learners' rows, in the order of
\* non-increasing score; get_recommended_study_order returns the topic ids of
\* such a list in its order, and its steps leave the tables alone.
C25_RankingComplete ==
  [][/\ \A user_id \in Learners :
          LET rows == SelectUser(user_progress, user_id)
              lists == calculate_review_priority(user_progress, user_id, clock)
          IN  /\ lists # {}
              /\ \A priority_list \in lists :
                   /\ Len(priority_list) = Cardinality(rows)
                   /\ {priority_list[i][1] : i \in 1..Len(priority_list)}
                        = {r.topic_id : r \in rows}
                   /\ \A i \in 1..Len(priority_list) :
                        \E r \in rows :
                          /\ r.topic_id = priority_list[i][1]
                          /\ priority_list[i][2]
                               = PriorityScore(r, clock, clock).value
                   /\ \A i \in 1..(Len(priority_list) - 1) :
                        priority_list[i][2] >= priority_list[i + 1][2]
     /\ \A p \in Procs :
          (pc[p] = "so_rank" \/ pc'[p] = "so_rank")
          => /\ user_progress' = user_progress
             /\ attempt_history' = attempt_history
             /\ topics' = topics
             /\ (pc[p] = "so_rank" /\ pc'[p] = "idle")
                  => \E priority_list \in calculate_review_priority(
                                            user_progress, frame[p].user_id,
                                            clock) :
                       result'[p].value
                         = [i \in 1..Len(priority_list) |->
                              priority_list[i][1]]]_vars

\* The study order of a learner with four topic states of three different
\* scores was returned, while the other learner has a state as well.
C25_Witness ==
  /\ "op" \in DOMAIN result["p1"]
  /\ result["p1"].op = "get_recommended_study_order"
  /\ Len(result["p1"].value) = 4
  /\ SelectUser(user_progress, OtherLearner) # {}
  /\ \A priority_list \in calculate_review_priority(user_progress,
                                                    SessionLearner, clock) :
       /\ priority_list[1][2] > priority_list[3][2]
       /\ priority_list[3][2] > priority_list[4][2]

\* C26: a correct answer that follows a correct answer on the same key
\* stores an interval_days at least as large as the one stored before it.
C26_IntervalsGrow ==
  [][\A p \in Procs :
       (pc[p] = "ra_update" /\ pc'[p] = "idle" /\ result'[p].status = "ok"
          /\ frame[p].correct)
       => \A prev \in frame[p].stats :
            prev.streak_correct >= 1
            => \A r \in Select(user_progress', frame[p].user_id,
                               frame[p].topic_id) :
                 r.interval_days >= prev.interval_days]_vars

\* C27: in every stored row review_count equals streak_correct: a correct
\* answer adds one to both, an incorrect answer sets both to 0.
C27_ReviewCountIsStreak ==
  \A r \in user_progress : r.review_count = r.streak_correct

\* Correct, incorrect, correct on one key: both counters grew, were reset,
\* and grew again.
C27_Witness ==
  \E r \in user_progress :
    /\ r.attempts = 3 /\ r.correct = 2
    /\ r.streak_correct = 1 /\ r.review_count = 1

\* C28: the easiness_factor of a key never increases while its row exists:
\* a correct answer stores the value it read, an incorrect answer stores the
\* value it read less 0.54, but not less than the floor 1.3.
C28_EasinessNeverIncreases ==
  [][/\ \A old \in user_progress :
          \A new \in Select(user_progress', old.user_id, old.topic_id) :
            new.easiness_factor <= old.easiness_factor
     /\ \A p \in Procs :
          (pc[p] = "ra_update" /\ pc'[p] = "idle"
             /\ result'[p].status = "ok")
          => \A prev \in frame[p].stats :
               \A r \in Select(user_progress', frame[p].user_id,
                               frame[p].topic_id) :
                 r.easiness_factor =
                   IF frame[p].correct THEN prev.easiness_factor
                   ELSE Max(EFMin, prev.easiness_factor - 54)]_vars

\* Three incorrect answers brought the key to the floor, and the correct
\* answer that came last left it there.
C28_Witness ==
  \E r \in user_progress :
    /\ r.attempts - r.correct >= 3
    /\ r.streak_correct >= 1
    /\ r.easiness_factor = EFMin

\* C29: after every step of a run of uploads and picks, each stored row is of
\* a topic of the registry, and a topic id that pick_next_topic returns is a
\* topic of the registry.
C29_StatesWithinRegistry ==
  [][/\ \A r \in user_progress' :
          \E i \in 1..Len(topics') : topics'[i] = r.topic_id
     /\ \A p \in Procs :
          (pc[p] \in PickPcs /\ pc'[p] = "idle" /\ result'[p].status = "ok")
          => \E i \in 1..Len(topics') : topics'[i] = result'[p].value]_vars

\* C30: in every interleaving of init_user_state and record_answer calls the
\* store holds at most one row per (user_id, topic_id), and a call that
\* returns normally has completed its update: init_user_state leaves a row
\* for every topic of the registry, record_answer leaves its new values in
\* the row of its key and its record in the history.
C30_OneRowAndNoSilentLoss ==
  [][/\ \A r1, r2 \in user_progress' :
          (r1.user_id = r2.user_id /\ r1.topic_id = r2.topic_id) => r1 = r2
     /\ \A p \in Procs :
          (pc[p] \in InitPcs /\ pc'[p] = "idle" /\ result'[p].status = "ok")
          => \A i \in 1..Len(topics) :
               Select(user_progress', frame[p].user_id, topics[i]) # {}
     /\ \A p \in Procs :
          (pc[p] = "ra_update" /\ pc'[p] = "idle"
             /\ result'[p].status = "ok")
          => /\ \E r \in Select(user_progress', frame[p].user_id,
                                frame[p].topic_id) :
                  r.last_reviewed = frame[p].current_time
             /\ Len(attempt_history') = Len(attempt_history) + 1]_vars

====
